---- MODULE Spec2Model ----
(***************************************************************************)
(* albus: a Whitespace interpreter (src/src/main.rs).                      *)
(*                                                                         *)
(* main reads a text, parse decodes it into an instruction list and a      *)
(* label table, interpret runs the list on a stack machine.  The model     *)
(* follows one run of main: the text is chosen in Init, each iteration of  *)
(* parse's loop is one step, each executed instruction is one step.        *)
(*                                                                         *)
(* A panic of the Rust code (unwrap of None, index out of range, HashMap   *)
(* index of a missing key, division by zero, arithmetic overflow in a      *)
(* build with overflow checks) ends the run in pc = "panic"; err names     *)
(* the kind of panic.                                                      *)
(***************************************************************************)
EXTENDS Integers, Sequences, FiniteSets, TLC

VARIABLES
    src,        \* main's String: the file's text, then (after retain) the tokens
    pc,         \* "main" | "parse" | "interp" | "done" | "panic"
    err,        \* kind of the panic, "" while there is none
    build,      \* overflow checks of the build: "debug" (panic) | "release" (wrap)
                \* | "any" (no overflow met yet, so the run is the same in both)
    pos,        \* parse: number of bytes the iterator `tokens` has yielded
    code,       \* parse: the u8 accumulator
    insns,      \* parse: Vec<Insn>, then interpret's read-only argument
    labels,     \* parse: HashMap<Num, usize>, then interpret's argument
    lastArg,    \* history: the last call of parse_arg (from, to, n), <<>> if none
    stack,      \* interpret: Vec<Num>, top is the last element
    calls,      \* interpret: Vec<usize>
    heap,       \* interpret: HashMap<Num, Num>
    ip,         \* interpret: index of the next instruction (0-based)
    n,          \* interpret: the u32 count
    out,        \* what print! has written to stdout
    trace,      \* history: the indices of the instructions dispatched, in order
    heapLog,    \* history: the heap accesses, <<"write", k, v>> and <<"read", k, v>>
    result      \* interpret's return value <<stack, heap, n>>, <<>> before it returns

parseVars == <<pos, code, insns, labels, lastArg>>
vmVars == <<stack, calls, heap, ip, n, out, trace, heapLog, result>>
vars == <<src, pc, err, build, pos, code, insns, labels, lastArg,
          stack, calls, heap, ip, n, out, trace, heapLog, result>>

----------------------------------------------------------------------------
(* Bounds of the model. *)

\* longest raw text enumerated character by character
MaxTextLen == 6
\* longest program drawn from the whole instruction set
MaxProgLen == 2
\* longest program drawn from the jump instructions
MaxJumpLen == 4
\* longest program drawn from the call/return instructions
MaxCallLen == 5
\* most instructions one run dispatches
MaxSteps == 12
\* longest program drawn from the stack instructions
MaxStackLen == 4
\* most heap accesses (each with the pushes of its operands) in one program
MaxHeapOps == 3
\* largest magnitude of the operands of the division programs
MaxOperand == 7

----------------------------------------------------------------------------
(* Bytes. *)

SPACE == 32
TAB == 9
LF == 10
\* a byte that is none of the three tokens ('x')
OTHER_BYTE == 120

Tokens == {SPACE, TAB, LF}

\* src.retain(|c| c == ' ' || c == '\t' || c == '\n')
Retain(text) == SelectSeq(text, LAMBDA c : c = SPACE \/ c = TAB \/ c = LF)

----------------------------------------------------------------------------
(* Instructions: a record with the variant's name and, for the variants    *)
(* that carry a Num, its argument.                                         *)

Nullary(op) == [op |-> op]
Unary(op, arg) == [op |-> op, arg |-> arg]

ArgOps == {"Push", "Copy", "Slide", "Call", "Jump", "Jz", "Jn", "Label"}

\* the match of parse: accumulator value -> variant, "None" for the default arm
Opcode(c) ==
    CASE c = 5   -> "Push"      \* 0b01_01
      [] c = 25  -> "Copy"      \* 0b01_10_01
      [] c = 27  -> "Slide"     \* 0b01_10_11
      [] c = 54  -> "Call"      \* 0b11_01_10
      [] c = 55  -> "Jump"      \* 0b11_01_11
      [] c = 57  -> "Jz"        \* 0b11_10_01
      [] c = 58  -> "Jn"        \* 0b11_10_10
      [] c = 53  -> "Label"     \* 0b11_01_01
      [] c = 31  -> "Pop"       \* 0b01_11_11
      [] c = 29  -> "Dup"       \* 0b01_11_01
      [] c = 30  -> "Swap"      \* 0b01_11_10
      [] c = 149 -> "Add"       \* 0b10_01_01_01
      [] c = 150 -> "Sub"       \* 0b10_01_01_10
      [] c = 151 -> "Mul"       \* 0b10_01_01_11
      [] c = 153 -> "Div"       \* 0b10_01_10_01
      [] c = 154 -> "Mod"       \* 0b10_01_10_10
      [] c = 41  -> "Store"     \* 0b10_10_01
      [] c = 42  -> "Load"      \* 0b10_10_10
      [] c = 59  -> "Ret"       \* 0b11_10_11
      [] c = 185 -> "Ichr"      \* 0b10_11_10_01
      [] c = 186 -> "Inum"      \* 0b10_11_10_10
      [] c = 181 -> "Ochr"      \* 0b10_11_01_01
      [] c = 182 -> "Onum"      \* 0b10_11_01_10
      [] c = 63  -> "Exit"      \* 0b11_11_11
      [] OTHER   -> "None"

----------------------------------------------------------------------------
(* parse_arg.  `p` is the number of bytes the iterator has yielded so far;  *)
(* the next byte is text[p + 1].                                           *)

\* the bit added before the shift instead of after it
ShiftIn_AddThenShift(acc, byte) == (acc + (IF byte = TAB THEN 1 ELSE 0)) * 2

\* one bit appended: n <<= 1; if byte == b'\t' { n += 1 }
ShiftIn(acc, byte) == acc * 2 + (IF byte = TAB THEN 1 ELSE 0)

\* the while-let loop: ends at LF (consumed) or when the iterator is exhausted
RECURSIVE ArgLoop(_, _, _)
ArgLoop(text, p, acc) ==
    IF p >= Len(text)
    THEN [n |-> acc, pos |-> p]
    ELSE IF text[p + 1] = LF
         THEN [n |-> acc, pos |-> p + 1]
         ELSE ArgLoop(text, p + 1, ShiftIn(acc, text[p + 1]))

\* the sign byte: tokens.next().unwrap() == b'\t'
IsNeg(byte) == byte = TAB

\* if neg { n * -1 } else { n }
Signed(neg, mag) == IF neg THEN mag * (-1) ELSE mag

parse_arg(text, p) ==
    IF p >= Len(text)
    THEN [panic |-> TRUE, n |-> 0, pos |-> p]
    ELSE LET r == ArgLoop(text, p + 1, 0)
         IN  [panic |-> FALSE, n |-> Signed(IsNeg(text[p + 1]), r.n), pos |-> r.pos]

----------------------------------------------------------------------------
(* parse. *)

\* code * 4 + byte % 4 + 1, before the u8 width is applied
Accumulate(c, byte) == c * 4 + (byte % 4) + 1

\* the width of the accumulator: 0u8
U8 == 256

\* an insert that keeps the entry a key already has
LabelInsert_KeepFirst(tab, k, v) ==
    [x \in (DOMAIN tab) \cup {k} |-> IF x \in DOMAIN tab THEN tab[x] ELSE v]

\* labels.insert(arg.clone(), insns.len())
LabelInsert(tab, k, v) ==
    [x \in (DOMAIN tab) \cup {k} |-> IF x = k THEN v ELSE tab[x]]

EmptyMap == [x \in {} |-> 0]

\* the state of parse's loop after one iteration that computed accumulator c
\* and has consumed p bytes: the match and the `if insn != Insn::None`
Decode(text, c, p, is, ls) ==
    LET op == Opcode(c) IN
    IF op = "None"
    THEN [panic |-> FALSE, code |-> c, pos |-> p, insns |-> is, labels |-> ls,
          arg |-> <<>>]
    ELSE IF op \in ArgOps
    THEN LET a == parse_arg(text, p) IN
         IF a.panic
         THEN [panic |-> TRUE, code |-> c, pos |-> p, insns |-> is, labels |-> ls,
               arg |-> <<>>]
         ELSE [panic |-> FALSE, code |-> 0, pos |-> a.pos,
               insns |-> Append(is, Unary(op, a.n)),
               labels |-> IF op = "Label" THEN LabelInsert(ls, a.n, Len(is)) ELSE ls,
               arg |-> [from |-> p, to |-> a.pos, n |-> a.n]]
    ELSE [panic |-> FALSE, code |-> 0, pos |-> p, insns |-> Append(is, Nullary(op)),
          labels |-> ls, arg |-> <<>>]

----------------------------------------------------------------------------
(* The texts main is run on: every text of up to MaxTextLen bytes over the *)
(* three tokens and one other byte, and the Whitespace encodings of the    *)
(* programs of these families.                                            *)

SeqsUpTo(S, k) == UNION {[1..m -> S] : m \in 0..k}

Bytes == Tokens \cup {OTHER_BYTE}

NullaryOps == {"Pop", "Dup", "Swap", "Add", "Sub", "Mul", "Div", "Mod", "Store",
               "Load", "Ret", "Ichr", "Inum", "Ochr", "Onum", "Exit"}

FullAlphabet ==
    {Unary("Push", v) : v \in {-6, -1, 0, 1}}
    \cup {Unary("Copy", v) : v \in {-1, 0, 1}}
    \cup {Unary("Slide", v) : v \in {0, 1}}
    \cup {Unary(op, 0) : op \in {"Label", "Call", "Jump", "Jz", "Jn"}}
    \cup {Nullary(op) : op \in NullaryOps}

JumpAlphabet ==
    {Unary("Push", 0), Unary("Push", -1), Unary("Label", 0), Unary("Jump", 0),
     Unary("Jz", 0), Unary("Jn", 0)}

CallAlphabet ==
    {Unary("Call", 0), Unary("Call", 1), Unary("Label", 0), Unary("Label", 1),
     Nullary("Ret")}

StackAlphabet ==
    {Unary("Push", 0), Unary("Push", 1), Unary("Push", -6), Unary("Copy", 1),
     Unary("Slide", 1), Nullary("Exit")}

\* one heap access with the pushes that set up its operands
HeapAccesses ==
    {<<Unary("Push", 0), Unary("Push", 1), Nullary("Store")>>,
     <<Unary("Push", 0), Unary("Push", -6), Nullary("Store")>>,
     <<Unary("Push", 1), Unary("Push", 1), Nullary("Store")>>,
     <<Unary("Push", 0), Nullary("Load")>>,
     <<Unary("Push", 1), Nullary("Load")>>,
     <<Unary("Push", 0), Nullary("Ichr")>>,
     <<Unary("Push", 1), Nullary("Inum")>>,
     <<Unary("Push", 1), Unary("Push", 1), Unary("Push", -6), Nullary("Store"),
       Nullary("Load")>>}

RECURSIVE Flatten(_)
Flatten(ss) == IF ss = <<>> THEN <<>> ELSE Head(ss) \o Flatten(Tail(ss))

HeapPrograms == {Flatten(ss) : ss \in SeqsUpTo(HeapAccesses, MaxHeapOps)}

\* push l, push r, divide
DivisionPrograms ==
    {<<Unary("Push", l), Unary("Push", r), Nullary(op)>> :
        l \in (-MaxOperand)..MaxOperand, r \in (-MaxOperand)..MaxOperand,
        op \in {"Div", "Mod"}}

Programs ==
    SeqsUpTo(FullAlphabet, MaxProgLen)
    \cup SeqsUpTo(JumpAlphabet, MaxJumpLen)
    \cup SeqsUpTo(CallAlphabet, MaxCallLen)
    \cup SeqsUpTo(StackAlphabet, MaxStackLen)
    \cup HeapPrograms
    \cup DivisionPrograms

\* the accumulator value of a variant, and its tokens (the base-4 digits)
CodeTable == [op \in ArgOps \cup NullaryOps |-> CHOOSE c \in 1..255 : Opcode(c) = op]
CodeOf(op) == CodeTable[op]
TokenOf(d) == CHOOSE b \in Tokens : (b % 4) + 1 = d

RECURSIVE CodeTokens(_)
CodeTokens(c) == IF c = 0 THEN <<>> ELSE Append(CodeTokens(c \div 4), TokenOf(c % 4))

RECURSIVE BitTokens(_)
BitTokens(m) ==
    IF m = 0 THEN <<>>
    ELSE Append(BitTokens(m \div 2), IF m % 2 = 1 THEN TAB ELSE SPACE)

EncodeNum(v) ==
    <<IF v < 0 THEN TAB ELSE SPACE>> \o BitTokens(IF v < 0 THEN -v ELSE v) \o <<LF>>

EncodeInsn(i) ==
    CodeTokens(CodeOf(i.op)) \o (IF i.op \in ArgOps THEN EncodeNum(i.arg) ELSE <<>>)

RECURSIVE EncodeProg(_)
EncodeProg(p) == IF p = <<>> THEN <<>> ELSE EncodeInsn(Head(p)) \o EncodeProg(Tail(p))

Texts == SeqsUpTo(Bytes, MaxTextLen) \cup {EncodeProg(p) : p \in Programs}

\* what one read of a byte from stdin leaves in buf[0] (0 at end of input)
InputBytes == {0, 65}
\* what one line of stdin parses to, when it is an integer
InputLines == {-3, 42}

----------------------------------------------------------------------------
(* main up to the call of parse. *)

Init ==
    /\ src \in Texts
    /\ pc = "main"
    /\ err = ""
    /\ build = "any"
    /\ pos = 0
    /\ code = 0
    /\ insns = <<>>
    /\ labels = EmptyMap
    /\ lastArg = <<>>
    /\ stack = <<>>
    /\ calls = <<>>
    /\ heap = EmptyMap
    /\ ip = 0
    /\ n = 0
    /\ out = <<>>
    /\ trace = <<>>
    /\ heapLog = <<>>
    /\ result = <<>>

\* parse, up to its loop: the locals and src.retain
ParseEnter ==
    /\ pc = "main"
    /\ src' = Retain(src)
    /\ pc' = "parse"
    /\ pos' = 0
    /\ code' = 0
    /\ insns' = <<>>
    /\ labels' = EmptyMap
    /\ UNCHANGED <<err, build, lastArg, vmVars>>

\* the rest of one iteration of parse's loop, the accumulator being c
Iterate(c) ==
    LET d == Decode(src, c, pos + 1, insns, labels) IN
    /\ pc' = IF d.panic THEN "panic" ELSE pc
    /\ err' = IF d.panic THEN "ArgUnwrapNone" ELSE err
    /\ pos' = d.pos
    /\ code' = d.code
    /\ insns' = d.insns
    /\ labels' = d.labels
    /\ lastArg' = IF d.arg = <<>> THEN lastArg ELSE d.arg
    /\ UNCHANGED <<src, vmVars>>

\* one iteration whose accumulator update fits the u8
ParseStep ==
    /\ pc = "parse"
    /\ pos < Len(src)
    /\ Accumulate(code, src[pos + 1]) < U8
    /\ Iterate(Accumulate(code, src[pos + 1]))
    /\ UNCHANGED build

\* code * 4 overflows the u8, overflow checks on: panic
ParseStepOverflowPanic ==
    /\ pc = "parse"
    /\ pos < Len(src)
    /\ Accumulate(code, src[pos + 1]) >= U8
    /\ build \in {"any", "debug"}
    /\ build' = "debug"
    /\ pc' = "panic"
    /\ err' = "AccumulatorOverflow"
    /\ pos' = pos + 1
    /\ UNCHANGED <<src, code, insns, labels, lastArg, vmVars>>

\* code * 4 overflows the u8, overflow checks off: the product wraps
ParseStepOverflowWrap ==
    /\ pc = "parse"
    /\ pos < Len(src)
    /\ Accumulate(code, src[pos + 1]) >= U8
    /\ build \in {"any", "release"}
    /\ build' = "release"
    /\ Iterate(Accumulate(code, src[pos + 1]) % U8)

\* the loop ends, parse returns (insns, labels) and main calls interpret,
\* which sets up its locals
ParseReturn ==
    /\ pc = "parse"
    /\ pos >= Len(src)
    /\ pc' = "interp"
    /\ stack' = <<>>
    /\ calls' = <<>>
    /\ heap' = EmptyMap
    /\ ip' = 0
    /\ n' = 0
    /\ UNCHANGED <<src, err, build, parseVars, out, trace, heapLog, result>>

----------------------------------------------------------------------------
(* interpret.  Each action is one iteration of the loop whose instruction  *)
(* is the named variant: `n += 1`, the match arm, `ip += 1`.               *)

Top(s) == s[Len(s)]
Pop1(s) == SubSeq(s, 1, Len(s) - 1)

\* insns.get(ip)
Cur == insns[ip + 1]

\* the loop's `while let Some(insn) = insns.get(ip)` yields variant op
Fetch(op) ==
    /\ pc = "interp"
    /\ ip < Len(insns)
    /\ Cur.op = op
    /\ Len(trace) < MaxSteps

\* n += 1 at the head of the loop body
Counted(c) == c + 1
\* a Label arm that leaves the count as the loop head made it
Uncounted_Forgotten(c) == c

\* n -= 1 of the Label arm
Uncounted(c) == c - 1

\* the arm ends with the VM in the given state; then ip += 1
Effect(s, cs, h, target, o, cnt, log) ==
    /\ stack' = s
    /\ calls' = cs
    /\ heap' = h
    /\ ip' = target + 1
    /\ out' = o
    /\ n' = cnt
    /\ trace' = Append(trace, ip)
    /\ heapLog' = log
    /\ UNCHANGED <<src, pc, err, build, parseVars, result>>

\* an arm that does not touch the heap
Step(s, cs, h, target, o, cnt) == Effect(s, cs, h, target, o, cnt, heapLog)

\* an arm that reads or writes the heap: the stack and heap it leaves, the access
HeapStep(s, h, access) ==
    Effect(s, calls, h, ip, out, Counted(n), Append(heapLog, access))

Continue(s, cs, h, target, o) == Step(s, cs, h, target, o, Counted(n))

\* a failed arm that is skipped: the loop goes on with the next instruction
Panic_Resumes(kind, s) == Step(s, calls, heap, ip, out, Counted(n))

\* the arm panics, the operand stack being s at that moment
Panic(kind, s) ==
    /\ pc' = "panic"
    /\ err' = kind
    /\ stack' = s
    /\ n' = Counted(n)
    /\ trace' = Append(trace, ip)
    /\ UNCHANGED <<src, build, parseVars, calls, heap, ip, out, heapLog, result>>

\* a lookup that finds the first Label instruction of the list with value l
Target_FirstDefinition(l) ==
    CHOOSE i \in 0..(Len(insns) - 1) :
        /\ insns[i + 1] = Unary("Label", l)
        /\ \A j \in 0..(i - 1) : insns[j + 1] # Unary("Label", l)

\* labels[arg]: the index a transfer to label l continues from
Target(l) == labels[l]

\* an insert that keeps the value a key already has
HeapInsert_KeepOld(h, k, v) ==
    IF k \in DOMAIN h THEN h ELSE [x \in (DOMAIN h) \cup {k} |-> IF x = k THEN v ELSE h[x]]

\* heap.insert(k, v)
HeapInsert(h, k, v) == [x \in (DOMAIN h) \cup {k} |-> IF x = k THEN v ELSE h[x]]

\* a push that inserts the value at the bottom of the stack
Push_Front ==
    /\ Fetch("Push")
    /\ Continue(<<Cur.arg>> \o stack, calls, heap, ip, out)

Push ==
    /\ Fetch("Push")
    /\ Continue(Append(stack, Cur.arg), calls, heap, ip, out)

\* a copy that counts the element from the bottom of the stack
Copy_FromBottom ==
    /\ Fetch("Copy")
    /\ IF Cur.arg < 0 THEN Panic("NegativeOperand", stack)
       ELSE IF Cur.arg >= Len(stack) THEN Panic("StackUnderflow", stack)
       ELSE Continue(Append(stack, stack[Cur.arg + 1]), calls, heap, ip, out)

\* arg.to_usize().unwrap(), then stack[stack.len() - 1 - n]
Copy ==
    /\ Fetch("Copy")
    /\ IF Cur.arg < 0 THEN Panic("NegativeOperand", stack)
       ELSE IF Cur.arg >= Len(stack) THEN Panic("StackUnderflow", stack)
       ELSE Continue(Append(stack, stack[Len(stack) - Cur.arg]), calls, heap, ip, out)

\* a slide that removes the elements at the bottom of the stack
Slide_FromBottom ==
    /\ Fetch("Slide")
    /\ IF Len(stack) = 0 THEN Panic("StackUnderflow", stack)
       ELSE IF Cur.arg < 0 THEN Panic("NegativeOperand", stack)
       ELSE IF Cur.arg > Len(stack) - 1 THEN Panic("StackUnderflow", stack)
       ELSE Continue(SubSeq(stack, Cur.arg + 1, Len(stack) - 1) \o <<Top(stack)>>,
                     calls, heap, ip, out)

\* let n = stack.len() - 1; stack.drain(n - arg.to_usize().unwrap()..n)
\* (with overflow checks off the subtractions wrap and drain panics on the range)
Slide ==
    /\ Fetch("Slide")
    /\ IF Len(stack) = 0 THEN Panic("StackUnderflow", stack)
       ELSE IF Cur.arg < 0 THEN Panic("NegativeOperand", stack)
       ELSE IF Cur.arg > Len(stack) - 1 THEN Panic("StackUnderflow", stack)
       ELSE Continue(SubSeq(stack, 1, Len(stack) - 1 - Cur.arg) \o <<Top(stack)>>,
                     calls, heap, ip, out)

Label ==
    /\ Fetch("Label")
    /\ Step(stack, calls, heap, ip, out, Uncounted(Counted(n)))

\* calls.push(ip); ip = labels[arg]
\* (when labels[arg] panics the push has happened; the unwinding drops calls)
Call ==
    /\ Fetch("Call")
    /\ IF Cur.arg \in DOMAIN labels
       THEN Continue(stack, Append(calls, ip), heap, Target(Cur.arg), out)
       ELSE Panic("UndefinedLabel", stack)

\* a jump that lands on the Label instruction itself
Jump_OntoLabel ==
    /\ Fetch("Jump")
    /\ IF Cur.arg \in DOMAIN labels
       THEN Continue(stack, calls, heap, Target(Cur.arg) - 1, out)
       ELSE Panic("UndefinedLabel", stack)

Jump ==
    /\ Fetch("Jump")
    /\ IF Cur.arg \in DOMAIN labels
       THEN Continue(stack, calls, heap, Target(Cur.arg), out)
       ELSE Panic("UndefinedLabel", stack)

\* a conditional jump that looks its label up before it tests the popped value
CondJump_EagerLookup(taken) ==
    IF Len(stack) = 0 THEN Panic("StackUnderflow", stack)
    ELSE IF Cur.arg \notin DOMAIN labels THEN Panic("UndefinedLabel", Pop1(stack))
    ELSE Continue(Pop1(stack), calls, heap, IF taken THEN Target(Cur.arg) ELSE ip, out)

\* the arm of a conditional jump whose condition on the popped value is taken
CondJump(taken) ==
    IF Len(stack) = 0 THEN Panic("StackUnderflow", stack)
    ELSE IF taken
    THEN IF Cur.arg \in DOMAIN labels
         THEN Continue(Pop1(stack), calls, heap, Target(Cur.arg), out)
         ELSE Panic("UndefinedLabel", Pop1(stack))
    ELSE Continue(Pop1(stack), calls, heap, ip, out)

\* if stack.pop().unwrap().is_zero() { ip = labels[arg] }
Jz ==
    /\ Fetch("Jz")
    /\ CondJump(Len(stack) > 0 /\ Top(stack) = 0)

\* if stack.pop().unwrap() < Zero::zero() { ip = labels[arg] }
Jn ==
    /\ Fetch("Jn")
    /\ CondJump(Len(stack) > 0 /\ Top(stack) < 0)

\* stack.pop(); the Option is dropped
Pop ==
    /\ Fetch("Pop")
    /\ Continue(IF Len(stack) = 0 THEN stack ELSE Pop1(stack), calls, heap, ip, out)

Dup ==
    /\ Fetch("Dup")
    /\ IF Len(stack) = 0 THEN Panic("StackUnderflow", stack)
       ELSE Continue(Append(stack, Top(stack)), calls, heap, ip, out)

\* stack.swap(n - 1, n - 2)
Swap ==
    /\ Fetch("Swap")
    /\ IF Len(stack) < 2 THEN Panic("StackUnderflow", stack)
       ELSE Continue(SubSeq(stack, 1, Len(stack) - 2)
                        \o <<stack[Len(stack)], stack[Len(stack) - 1]>>,
                     calls, heap, ip, out)

Abs(x) == IF x < 0 THEN -x ELSE x

\* a quotient rounded toward minus infinity
TruncDiv_Floor(l, r) ==
    IF (l < 0) = (r < 0) THEN Abs(l) \div Abs(r)
    ELSE IF Abs(l) % Abs(r) = 0 THEN -(Abs(l) \div Abs(r))
    ELSE -(Abs(l) \div Abs(r)) - 1

\* BigInt's / and %: the quotient truncated toward zero and its remainder
TruncDiv(l, r) ==
    IF (l < 0) = (r < 0) THEN Abs(l) \div Abs(r) ELSE -(Abs(l) \div Abs(r))
TruncRem(l, r) == l - r * TruncDiv(l, r)

\* let r = stack.pop().unwrap(); let n = stack.len() - 1; stack[n] op= r
Arith(op) ==
    IF Len(stack) = 0 THEN Panic("StackUnderflow", stack)
    ELSE IF Len(stack) = 1 THEN Panic("StackUnderflow", Pop1(stack))
    ELSE LET r == Top(stack)
             l == stack[Len(stack) - 1]
             keep == SubSeq(stack, 1, Len(stack) - 2)
         IN  IF op \in {"Div", "Mod"} /\ r = 0
             THEN Panic("ArithmeticError", Pop1(stack))
             ELSE Continue(Append(keep,
                             CASE op = "Add" -> l + r
                               [] op = "Sub" -> l - r
                               [] op = "Mul" -> l * r
                               [] op = "Div" -> TruncDiv(l, r)
                               [] op = "Mod" -> TruncRem(l, r)),
                           calls, heap, ip, out)

Add == Fetch("Add") /\ Arith("Add")
Sub == Fetch("Sub") /\ Arith("Sub")
Mul == Fetch("Mul") /\ Arith("Mul")
Div == Fetch("Div") /\ Arith("Div")
Mod == Fetch("Mod") /\ Arith("Mod")

\* let v = pop; let k = pop; heap.insert(k, v)
Store ==
    /\ Fetch("Store")
    /\ IF Len(stack) = 0 THEN Panic("StackUnderflow", stack)
       ELSE IF Len(stack) = 1 THEN Panic("StackUnderflow", Pop1(stack))
       ELSE HeapStep(SubSeq(stack, 1, Len(stack) - 2),
                     HeapInsert(heap, stack[Len(stack) - 1], Top(stack)),
                     <<"write", stack[Len(stack) - 1], Top(stack)>>)

\* let k = pop; stack.push(heap.get(&k).unwrap().clone())
Load ==
    /\ Fetch("Load")
    /\ IF Len(stack) = 0 THEN Panic("StackUnderflow", stack)
       ELSE IF Top(stack) \notin DOMAIN heap THEN Panic("MissingHeapKey", Pop1(stack))
       ELSE HeapStep(Append(Pop1(stack), heap[Top(stack)]), heap,
                     <<"read", Top(stack), heap[Top(stack)]>>)

\* a return that takes the oldest call index instead of the most recent
Ret_Fifo ==
    /\ Fetch("Ret")
    /\ IF Len(calls) = 0 THEN Panic("EmptyCallStack", stack)
       ELSE Continue(stack, Tail(calls), heap, Head(calls), out)

\* ip = calls.pop().unwrap()
Ret ==
    /\ Fetch("Ret")
    /\ IF Len(calls) = 0 THEN Panic("EmptyCallStack", stack)
       ELSE Continue(stack, Pop1(calls), heap, Top(calls), out)

\* let k = pop; stdin().read(&mut buf).ok(); heap.insert(k, buf[0])
Ichr ==
    /\ Fetch("Ichr")
    /\ IF Len(stack) = 0 THEN Panic("StackUnderflow", stack)
       ELSE \E b \in InputBytes :
                HeapStep(Pop1(stack), HeapInsert(heap, Top(stack), b),
                         <<"write", Top(stack), b>>)

\* let k = pop; read_line; heap.insert(k, n.trim_end().parse::<Num>().unwrap())
Inum ==
    /\ Fetch("Inum")
    /\ IF Len(stack) = 0 THEN Panic("StackUnderflow", stack)
       ELSE \/ \E v \in InputLines :
                  HeapStep(Pop1(stack), HeapInsert(heap, Top(stack), v),
                           <<"write", Top(stack), v>>)
            \/ Panic("InputParseError", Pop1(stack))

\* print!("{}", stack.pop().unwrap().to_u8().unwrap() as char)
Ochr ==
    /\ Fetch("Ochr")
    /\ IF Len(stack) = 0 THEN Panic("StackUnderflow", stack)
       ELSE IF Top(stack) < 0 \/ Top(stack) >= U8 THEN Panic("NotAByte", Pop1(stack))
       ELSE Continue(Pop1(stack), calls, heap, ip, Append(out, <<"chr", Top(stack)>>))

\* print!("{}", stack.pop().unwrap())
Onum ==
    /\ Fetch("Onum")
    /\ IF Len(stack) = 0 THEN Panic("StackUnderflow", stack)
       ELSE Continue(Pop1(stack), calls, heap, ip, Append(out, <<"num", Top(stack)>>))

\* an Exit arm without the break
Exit_NoBreak ==
    /\ Fetch("Exit")
    /\ Continue(stack, calls, heap, ip, out)

\* n += 1; break; then the return of (stack, heap, n)
Exit ==
    /\ Fetch("Exit")
    /\ pc' = "done"
    /\ n' = Counted(n)
    /\ trace' = Append(trace, ip)
    /\ result' = <<stack, heap, Counted(n)>>
    /\ UNCHANGED <<src, err, build, parseVars, stack, calls, heap, ip, out, heapLog>>

\* insns.get(ip) is None: the loop ends and (stack, heap, n) is returned
LoopEnd ==
    /\ pc = "interp"
    /\ ip >= Len(insns)
    /\ pc' = "done"
    /\ result' = <<stack, heap, n>>
    /\ UNCHANGED <<src, err, build, parseVars, stack, calls, heap, ip, n, out, trace,
                   heapLog>>

Next ==
    \/ ParseEnter \/ ParseStep \/ ParseStepOverflowPanic \/ ParseStepOverflowWrap
    \/ ParseReturn
    \/ Push \/ Copy \/ Slide \/ Label \/ Call \/ Jump \/ Jz \/ Jn \/ Pop \/ Dup
    \/ Swap \/ Add \/ Sub \/ Mul \/ Div \/ Mod \/ Store \/ Load \/ Ret \/ Ichr
    \/ Inum \/ Ochr \/ Onum \/ Exit \/ LoopEnd

Spec == Init /\ [][Next]_vars

----------------------------------------------------------------------------
(* Vocabulary of the properties. *)

\* parse has returned its (insns, labels) to main
Parsed == pc \in {"interp", "done"} \/ (pc = "panic" /\ trace # <<>>)

\* the instruction dispatched at step i of the run
Executed(i) == insns[trace[i] + 1]
LastExecuted == insns[Top(trace) + 1]

\* 0-based indices of the Label instructions that define label l
Defs(l) == {i \in 0..(Len(insns) - 1) : insns[i + 1] = Unary("Label", l)}
LastDef(l) == CHOOSE i \in Defs(l) : \A j \in Defs(l) : j <= i
FirstDef(l) == CHOOSE i \in Defs(l) : \A j \in Defs(l) : i <= j

Transfers == {"Call", "Jump", "Jz", "Jn"}

\* the instruction about to be dispatched is a transfer that will be taken
TakenNow ==
    \/ Cur.op \in {"Call", "Jump"}
    \/ Cur.op = "Jz" /\ Len(stack) > 0 /\ Top(stack) = 0
    \/ Cur.op = "Jn" /\ Len(stack) > 0 /\ Top(stack) < 0

AtInsn == pc = "interp" /\ ip < Len(insns)

----------------------------------------------------------------------------
\* C1: interpret starts at index 0; a run stops exactly when Exit has been
\* executed or ip is at or past the end of the list; both return the stack,
\* heap and count as they stand, and nothing is executed after Exit.
ExitExecuted == trace # <<>> /\ LastExecuted.op = "Exit"

\* C1 as an invariant over the history of dispatched instructions
C1_NormalTermination ==
    /\ (pc = "interp" /\ trace = <<>>) => ip = 0
    /\ pc = "interp" => (~ExitExecuted /\ result = <<>>)
    /\ pc = "done" => /\ ExitExecuted \/ ip >= Len(insns)
                      /\ result = <<stack, heap, n>>
    /\ \A i \in 1..(Len(trace) - 1) : Executed(i).op # "Exit"
    /\ \A i \in 1..Len(trace) : trace[i] < Len(insns)

\* a run ended by Exit with an instruction behind it left unexecuted
C1_Witness ==
    /\ pc = "done"
    /\ ExitExecuted
    /\ Top(trace) + 1 < Len(insns)
    /\ result[3] = 1

----------------------------------------------------------------------------
\* C2: at every point of a run the count equals the number of non-Label
\* instructions executed so far, whatever the length of the listing.
ExecutedNonLabels == Cardinality({i \in 1..Len(trace) : Executed(i).op # "Label"})

----------------------------------------------------------------------------
\* C3: a label defined by two or more Label instructions is mapped by parse
\* to the index of the last of them, and every taken Jump, Call, JumpIfZero
\* or JumpIfNegative to it continues at the instruction after that last one.
Redefined(l) == Cardinality(Defs(l)) >= 2

C3_Table ==
    Parsed => \A i \in 1..Len(insns) :
                 (insns[i].op = "Label" /\ Redefined(insns[i].arg))
                    => /\ insns[i].arg \in DOMAIN labels
                       /\ labels[insns[i].arg] = LastDef(insns[i].arg)

C3_Step ==
    (AtInsn /\ Cur.op \in Transfers /\ TakenNow /\ Redefined(Cur.arg)
        /\ Len(trace') > Len(trace))
      => (pc' = "interp" /\ ip' = LastDef(Cur.arg) + 1)

\* C3: the table holds the last definition, every taken transfer lands after it
C3_LastDefinitionWins == [](C3_Table) /\ [][C3_Step]_vars

\* a taken JumpIfZero to a label defined twice, placed between the definitions
C3_Witness ==
    /\ pc = "interp"
    /\ trace # <<>>
    /\ LastExecuted.op = "Jz"
    /\ Redefined(LastExecuted.arg)
    /\ FirstDef(LastExecuted.arg) < Top(trace)
    /\ Top(trace) < LastDef(LastExecuted.arg)
    /\ ip = LastDef(LastExecuted.arg) + 1

----------------------------------------------------------------------------
\* C4 as stated: in parse's result every Label instruction has a table entry
\* pointing to its own index, and every entry points to a Label instruction
\* with the entry's value.
C4_EveryLabelOwnIndex ==
    Parsed =>
      /\ \A i \in 1..Len(insns) :
            insns[i].op = "Label" => /\ insns[i].arg \in DOMAIN labels
                                     /\ labels[insns[i].arg] = i - 1
      /\ \A k \in DOMAIN labels :
            /\ labels[k] < Len(insns)
            /\ insns[labels[k] + 1] = Unary("Label", k)

\* C4 amended: every Label instruction has a table entry, which points to
\* the index of the last Label instruction with that value (its own index
\* when the value is defined once); every entry points to a Label
\* instruction with the entry's value.
C4_EntryIsLastDefinition ==
    pc # "main" =>
      /\ \A i \in 1..Len(insns) :
            insns[i].op = "Label" => /\ insns[i].arg \in DOMAIN labels
                                     /\ labels[insns[i].arg] = LastDef(insns[i].arg)
      /\ \A k \in DOMAIN labels :
            /\ labels[k] < Len(insns)
            /\ insns[labels[k] + 1] = Unary("Label", k)

\* parse has returned a list in which one label is defined twice and another once
C4_Witness ==
    /\ Parsed
    /\ \E k \in DOMAIN labels : Redefined(k)
    /\ \E k \in DOMAIN labels : Cardinality(Defs(k)) = 1

----------------------------------------------------------------------------
\* C5: when the tokens end inside an instruction (part of an opcode, an
\* opcode with its argument cut before the sign or before the LF), parse
\* drops it: nothing is appended, no label is entered, parse goes on to return.

\* the argument that starts after p bytes is ended by an LF that follows its sign
ArgTerminated(text, p) ==
    /\ ~parse_arg(text, p).panic
    /\ parse_arg(text, p).pos >= p + 2
    /\ text[parse_arg(text, p).pos] = LF

\* the accumulator the next iteration computes, as the u8 holds it
NextCode == Accumulate(code, src[pos + 1]) % U8

\* the next iteration completes an opcode whose argument the end of input cuts
TruncatedArgNext ==
    /\ pc = "parse"
    /\ pos < Len(src)
    /\ Opcode(NextCode) \in ArgOps
    /\ ~ArgTerminated(src, pos + 1)

C5_Step ==
    /\ TruncatedArgNext => (pc' = "parse" /\ insns' = insns /\ labels' = labels)
    /\ (pc = "parse" /\ pos >= Len(src)) => (insns' = insns /\ labels' = labels)

\* C5: every step of parse that meets the end of input inside an instruction
\* leaves the list and the table as they were and does not panic
C5_TruncatedInstructionDropped == [][C5_Step]_vars

----------------------------------------------------------------------------
\* C6: decoding of every text ends by returning; no token sequence makes the
\* decoder abort, and every iteration consumes at least one token.
DecoderPanics == {"ArgUnwrapNone", "AccumulatorOverflow"}

C6_Step == (pc = "parse" /\ pc' = "parse") => pos' > pos

\* C6: parse never panics, and each iteration advances the iterator
C6_DecoderNeverAborts == [](~(pc = "panic" /\ err \in DecoderPanics)) /\ [][C6_Step]_vars

----------------------------------------------------------------------------
\* C7: once the accumulator is neither a complete opcode nor a proper prefix
\* of one, the decoder resets it to zero and goes on with the next token.
RECURSIVE Prefixes(_)
Prefixes(c) == IF c = 0 THEN {} ELSE {c} \cup Prefixes(c \div 4)

ProperPrefixes ==
    UNION {Prefixes(c \div 4) : c \in {x \in 1..(U8 - 1) : Opcode(x) # "None"}}

\* C7: between iterations the accumulator is zero or a proper prefix of an opcode
C7_BadAccumulatorIsReset == pc = "parse" => (code = 0 \/ code \in ProperPrefixes)

----------------------------------------------------------------------------
\* C8: for an argument sign, k bits, LF, parse_arg consumes exactly these
\* k + 2 tokens and returns the big-endian binary value of the bits
\* (SPACE 0, TAB 1), negated iff the sign is TAB; zero when k = 0.

\* after `from` bytes the text reads: SPACE or TAB, k times SPACE or TAB, LF
WellFormedArg(text, from, k) ==
    /\ from + k + 2 <= Len(text)
    /\ \A i \in 1..(k + 1) : text[from + i] \in {SPACE, TAB}
    /\ text[from + k + 2] = LF

\* sum of bit_i * 2^(k - i) over the k bits that follow the sign
RECURSIVE Magnitude(_, _, _, _)
Magnitude(text, from, k, i) ==
    IF i > k THEN 0
    ELSE (IF text[from + 1 + i] = TAB THEN 2 ^ (k - i) ELSE 0)
            + Magnitude(text, from, k, i + 1)

\* C8: the last argument parse_arg read, when well formed, has the stated
\* end and value
C8_ArgumentValue ==
    lastArg # <<>> =>
      \A k \in 0..Len(src) :
         WellFormedArg(src, lastArg.from, k) =>
            /\ lastArg.to = lastArg.from + k + 2
            /\ lastArg.n = (IF src[lastArg.from + 1] = TAB THEN -1 ELSE 1)
                              * Magnitude(src, lastArg.from, k, 1)

\* parse_arg has read a negative argument of three bits, not all alike
C8_Witness ==
    /\ lastArg # <<>>
    /\ WellFormedArg(src, lastArg.from, 3)
    /\ lastArg.n = -6

----------------------------------------------------------------------------
\* C9: a label is looked up only when a transfer to it is taken: a transfer
\* to a label absent from the table is fatal exactly when taken; a
\* JumpIfZero / JumpIfNegative whose condition is false pops its value and
\* falls through.
Undefined(i) == i.op \in Transfers /\ i.arg \notin DOMAIN labels

C9_State ==
    err = "UndefinedLabel" => (pc = "panic" /\ trace # <<>> /\ Undefined(LastExecuted))

C9_Step ==
    (AtInsn /\ Undefined(Cur) /\ Len(trace') > Len(trace)) =>
       IF TakenNow
       THEN pc' = "panic" /\ err' = "UndefinedLabel"
       ELSE Len(stack) > 0 =>
               (pc' = "interp" /\ err' = "" /\ stack' = Pop1(stack) /\ ip' = ip + 1)

\* C9: an UndefinedLabel panic comes only from a taken transfer, and an
\* untaken conditional jump to an absent label pops and falls through
C9_LazyLabelLookup == [](C9_State) /\ [][C9_Step]_vars

\* a run that ended normally after an untaken conditional jump to an absent label
C9_Witness ==
    /\ pc = "done"
    /\ \E i \in 1..Len(trace) : Executed(i).op \in {"Jz", "Jn"} /\ Undefined(Executed(i))

----------------------------------------------------------------------------
\* C10: an instruction executed with fewer operands on the stack than it
\* pops, or a Copy(n)/Slide(n) with n beyond the stack depth, is a fatal
\* StackUnderflow; execution does not go on to the next instruction.
Needs(i) ==
    CASE i.op \in {"Pop", "Dup", "Jz", "Jn", "Load", "Ichr", "Inum", "Ochr", "Onum"} -> 1
      [] i.op \in {"Swap", "Add", "Sub", "Mul", "Div", "Mod", "Store"} -> 2
      [] i.op \in {"Copy", "Slide"} -> IF i.arg >= 0 THEN i.arg + 1 ELSE 0
      [] OTHER -> 0

C10_Step ==
    (AtInsn /\ Len(stack) < Needs(Cur) /\ Len(trace') > Len(trace))
      => (pc' = "panic" /\ err' = "StackUnderflow")

\* C10: every dispatch with too few operands ends in a StackUnderflow panic
C10_UnderflowIsFatal == [][C10_Step]_vars

----------------------------------------------------------------------------
\* C11: calls and returns are last-in first-out.  The call stack holds,
\* bottom to top, the indices of the Calls executed and not yet returned.
RECURSIVE Pending(_)
Pending(k) ==
    IF k = 0 THEN <<>>
    ELSE LET before == Pending(k - 1)
         IN  CASE Executed(k).op = "Call" -> Append(before, trace[k])
               [] Executed(k).op = "Ret" -> Pop1(before)
               [] OTHER -> before

C11_State == pc \in {"interp", "done"} => calls = Pending(Len(trace))

C11_Step ==
    (AtInsn /\ Len(trace') > Len(trace)) =>
        /\ (Cur.op = "Call" /\ pc' = "interp") =>
              /\ calls' = Append(calls, ip)
              /\ ip' = labels[Cur.arg] + 1
              /\ insns[labels[Cur.arg] + 1] = Unary("Label", Cur.arg)
        /\ (Cur.op = "Ret" /\ Len(calls) > 0) =>
              /\ pc' = "interp"
              /\ ip' = calls[Len(calls)] + 1
              /\ calls' = SubSeq(calls, 1, Len(calls) - 1)

\* C11: Call(v) at index i pushes i and goes on after Label v, Return pops the
\* most recent unreturned call index i and goes on at i + 1, and the call
\* stack is always the sequence of unreturned call indices, oldest first
C11_CallReturnLifo == [](C11_State) /\ [][C11_Step]_vars

\* two nested calls have both returned, the inner one first
C11_Witness ==
    /\ pc = "interp"
    /\ calls = <<>>
    /\ \E a, b, c \in 1..Len(trace) :
          /\ a < b /\ b < c /\ c < Len(trace)
          /\ Executed(a).op = "Call" /\ Executed(b).op = "Call"
          /\ Executed(c).op = "Ret" /\ LastExecuted.op = "Ret"
          /\ \A j \in (a + 1)..(Len(trace) - 1) :
                j \notin {b, c} => Executed(j).op \notin {"Call", "Ret"}
          /\ trace[a] # trace[b]
          /\ trace[c + 1] = trace[b] + 1
          /\ ip = trace[a] + 1

----------------------------------------------------------------------------
\* C12: the heap is a map from keys to the value most recently written.
\* the positions of the writes to key k among the first j - 1 heap accesses
WritesBefore(j, k) ==
    {i \in 1..(j - 1) : heapLog[i][1] = "write" /\ heapLog[i][2] = k}

Latest(S) == CHOOSE i \in S : \A other \in S : other <= i

C12_State ==
    /\ \A j \in 1..Len(heapLog) :
          heapLog[j][1] = "read" =>
             /\ WritesBefore(j, heapLog[j][2]) # {}
             /\ heapLog[j][3] = heapLog[Latest(WritesBefore(j, heapLog[j][2]))][3]
    /\ DOMAIN heap = {heapLog[i][2] : i \in {j \in 1..Len(heapLog) : heapLog[j][1] = "write"}}
    /\ \A k \in DOMAIN heap :
          heap[k] = heapLog[Latest(WritesBefore(Len(heapLog) + 1, k))][3]
    /\ (pc = "interp" /\ trace # <<>> /\ LastExecuted.op = "Load") =>
          /\ heapLog # <<>>
          /\ heapLog[Len(heapLog)][1] = "read"
          /\ stack # <<>>
          /\ stack[Len(stack)] = heapLog[Len(heapLog)][3]

\* a step that is not a write to key k leaves heap[k] as it is
C12_Step ==
    \A k \in DOMAIN heap :
        (k \in DOMAIN heap' /\ heap'[k] # heap[k]) =>
            /\ AtInsn /\ Cur.op \in {"Store", "Ichr", "Inum"}
            /\ Len(heapLog') = Len(heapLog) + 1
            /\ heapLog'[Len(heapLog')][1] = "write"
            /\ heapLog'[Len(heapLog')][2] = k

\* C12: HeapLoad k pushes the value of the most recent HeapStore, ReadChar or
\* ReadNumber to k (so a store followed at once by a load of the same key
\* pushes the stored value), and writes to other keys never change heap[k]
C12_HeapIsLastWrite == [](C12_State) /\ [][C12_Step]_vars

\* a load of a key, after a write to it and then a write to another key,
\* pushed the value of the first write
C12_Witness ==
    /\ pc = "interp"
    /\ Len(heapLog) = 3
    /\ heapLog[1][1] = "write" /\ heapLog[2][1] = "write" /\ heapLog[3][1] = "read"
    /\ heapLog[1][2] = heapLog[3][2]
    /\ heapLog[2][2] # heapLog[3][2]
    /\ LastExecuted.op = "Load"
    /\ stack[Len(stack)] = heapLog[1][3]

----------------------------------------------------------------------------
\* C13: the fatal conditions of the VM, as the instruction about to be
\* dispatched meets them (with the operands it pops present).
DivisionByZero ==
    Cur.op \in {"Div", "Mod"} /\ Len(stack) >= 2 /\ stack[Len(stack)] = 0

NeverStored ==
    /\ Cur.op = "Load" /\ Len(stack) >= 1
    /\ \A i \in 1..Len(heapLog) :
          ~(heapLog[i][1] = "write" /\ heapLog[i][2] = stack[Len(stack)])

ReturnWithoutCall == Cur.op = "Ret" /\ calls = <<>>

TransferToUndefined ==
    /\ Cur.op \in Transfers
    /\ Cur.arg \notin {insns[i].arg : i \in {j \in 1..Len(insns) : insns[j].op = "Label"}}
    /\ \/ Cur.op \in {"Jump", "Call"}
       \/ Cur.op = "Jz" /\ Len(stack) >= 1 /\ stack[Len(stack)] = 0
       \/ Cur.op = "Jn" /\ Len(stack) >= 1 /\ stack[Len(stack)] < 0

FatalKind ==
    CASE DivisionByZero -> "ArithmeticError"
      [] NeverStored -> "MissingHeapKey"
      [] ReturnWithoutCall -> "EmptyCallStack"
      [] TransferToUndefined -> "UndefinedLabel"
      [] OTHER -> ""

C13_State ==
    pc = "panic" =>
        /\ result = <<>>
        /\ err \in {"ArithmeticError", "MissingHeapKey", "EmptyCallStack", "UndefinedLabel"}
              => (trace # <<>> /\ ip = trace[Len(trace)])

C13_Step ==
    /\ pc # "panic"
    /\ (AtInsn /\ FatalKind # "" /\ Len(trace') > Len(trace)) =>
          /\ pc' = "panic"
          /\ err' = FatalKind
          /\ out' = out
          /\ result' = <<>>

\* C13: a Div or Mod by zero, a HeapLoad of a key never stored, a Return with
\* an empty call stack and a taken transfer to an undefined label each end
\* the run at that instruction: no step follows, the output stays as it
\* was, and no (stack, heap, count) result exists
C13_FatalConditionsAbort == [](C13_State) /\ [][C13_Step]_vars

\* a run aborted by a load of a key never stored, after a write to another key
C13_Witness ==
    /\ pc = "panic"
    /\ err = "MissingHeapKey"
    /\ heapLog # <<>>

----------------------------------------------------------------------------
\* C14: Copy(n) on a stack of depth d with 0 <= n < d.
CopyInRange ==
    /\ AtInsn /\ Cur.op = "Copy"
    /\ 0 <= Cur.arg /\ Cur.arg < Len(stack)
    /\ Len(trace') > Len(trace)

\* C14 as stated: the depth after Copy(n) equals the depth before it
C14_CopyKeepsDepth == [][CopyInRange => Len(stack') = Len(stack)]_vars

C14_Step ==
    CopyInRange =>
        /\ pc' = "interp"
        /\ Len(stack') = Len(stack) + 1
        /\ \A i \in 1..Len(stack) : stack'[i] = stack[i]
        /\ stack'[Len(stack')] = stack[Len(stack) - Cur.arg]

\* C14: Copy(n) with 0 <= n < d leaves the d elements as they are and pushes
\* a copy of the element n positions below the top, so the depth grows by one
C14_CopyPushesOne == [][C14_Step]_vars

\* Copy(1) has just pushed the element below the top of a two-element stack
C14_Witness ==
    /\ pc = "interp"
    /\ trace # <<>>
    /\ LastExecuted = Unary("Copy", 1)
    /\ Len(stack) = 3
    /\ stack[1] # stack[2]
    /\ stack[3] = stack[1]

----------------------------------------------------------------------------
\* C15: Slide(n) on a stack of depth d with 0 <= n <= d - 1.
SlideInRange ==
    /\ AtInsn /\ Cur.op = "Slide"
    /\ 0 <= Cur.arg /\ Cur.arg <= Len(stack) - 1
    /\ Len(trace') > Len(trace)

C15_Step ==
    SlideInRange =>
        /\ pc' = "interp"
        /\ Len(stack') = Len(stack) - Cur.arg
        /\ stack'[Len(stack')] = stack[Len(stack)]
        /\ \A i \in 1..(Len(stack) - 1 - Cur.arg) : stack'[i] = stack[i]

\* C15: Slide(n) with 0 <= n <= d - 1 reduces the depth by exactly n, keeps
\* the top as the new top, and keeps the d - 1 - n elements below the removed
\* ones in their order
C15_SlideRemovesBelowTop == [][C15_Step]_vars

\* Slide(1) has just removed the middle one of three distinct elements
C15_Witness ==
    /\ pc = "interp"
    /\ Len(trace) = 4
    /\ \A i \in 1..3 : Executed(i).op = "Push"
    /\ Executed(1).arg # Executed(2).arg /\ Executed(2).arg # Executed(3).arg
    /\ LastExecuted = Unary("Slide", 1)
    /\ stack = <<Executed(1).arg, Executed(3).arg>>

----------------------------------------------------------------------------
\* C16: Div and Mod with a non-zero right operand.
DivisionInRange ==
    /\ AtInsn /\ Cur.op \in {"Div", "Mod"}
    /\ Len(stack) >= 2 /\ stack[Len(stack)] # 0
    /\ Len(trace') > Len(trace)

\* q is l / r rounded toward zero
IsTruncatedQuotient(q, l, r) ==
    /\ Abs(q) * Abs(r) <= Abs(l)
    /\ Abs(l) < (Abs(q) + 1) * Abs(r)
    /\ q # 0 => ((q < 0) = ((l < 0) # (r < 0)))

C16_Step ==
    DivisionInRange =>
        LET r == stack[Len(stack)]
            l == stack[Len(stack) - 1]
            res == stack'[Len(stack')]
        IN  /\ pc' = "interp"
            /\ Len(stack') = Len(stack) - 1
            /\ \A i \in 1..(Len(stack) - 2) : stack'[i] = stack[i]
            /\ Cur.op = "Div" =>
                  /\ IsTruncatedQuotient(res, l, r)
                  /\ (l = -7 /\ r = 2) => res = -3
            /\ Cur.op = "Mod" =>
                  /\ Abs(res) < Abs(r)
                  /\ res # 0 => ((res < 0) = (l < 0))
                  /\ \E q \in (-Abs(l))..Abs(l) :
                        IsTruncatedQuotient(q, l, r) /\ l = q * r + res
                  /\ (l = -7 /\ r = 2) => res = -1

\* C16: Div and Mod pop r and replace l by the quotient rounded toward zero
\* and by the remainder with the sign of l, with l = (l Div r) * r + (l Mod r);
\* (-7) Div 2 = -3 and (-7) Mod 2 = -1
C16_TruncatedDivision == [][C16_Step]_vars

\* (-7) Mod 2 has just left -1
C16_Witness ==
    /\ pc = "interp"
    /\ Len(trace) = 3
    /\ Executed(1) = Unary("Push", -7)
    /\ Executed(2) = Unary("Push", 2)
    /\ Executed(3).op = "Mod"
    /\ stack = <<-1>>

----------------------------------------------------------------------------
\* C17: programs made of Push and Exit only.
OnlyPushAndExit == \A i \in 1..Len(insns) : insns[i].op \in {"Push", "Exit"}

\* the number of instructions before the first Exit (all of them without one)
BeforeExit ==
    IF \E i \in 1..Len(insns) : insns[i].op = "Exit"
    THEN (CHOOSE i \in 1..Len(insns) :
             /\ insns[i].op = "Exit"
             /\ \A j \in 1..(i - 1) : insns[j].op # "Exit") - 1
    ELSE Len(insns)

\* C17: a program of Push and Exit instructions only returns the pushed
\* values in push order, bottom to top, and an empty heap
C17_PushOnlyStack ==
    (pc = "done" /\ OnlyPushAndExit) =>
        /\ result[1] = [i \in 1..BeforeExit |-> insns[i].arg]
        /\ result[2] = EmptyMap

\* a finished Push/Exit program that pushed two different values and left
\* a push after its Exit unexecuted
C17_Witness ==
    /\ pc = "done"
    /\ OnlyPushAndExit
    /\ BeforeExit + 1 < Len(insns)
    /\ Len(result[1]) >= 2
    /\ result[1][1] # result[1][2]

----------------------------------------------------------------------------
\* C18: where ip stands after an instruction that completed.
Completes ==
    /\ AtInsn /\ Cur.op # "Exit"
    /\ Len(trace') > Len(trace)
    /\ pc' = "interp"

C18_Step ==
    Completes =>
        /\ (Cur.op \notin Transfers \cup {"Ret"}) => ip' = ip + 1
        /\ (Cur.op \in {"Jz", "Jn"} /\ ~TakenNow) => ip' = ip + 1
        /\ (Cur.op \in Transfers /\ TakenNow) =>
              /\ ip' = labels[Cur.arg] + 1
              /\ insns[labels[Cur.arg] + 1] = Unary("Label", Cur.arg)
        /\ Cur.op = "Ret" => ip' = calls[Len(calls)] + 1

\* the Label a transfer went to is not the next instruction dispatched
C18_State ==
    \A i \in 1..(Len(trace) - 1) :
        (Executed(i).op \in {"Jump", "Call"}) =>
            /\ trace[i + 1] # labels[Executed(i).arg]
            /\ trace[i + 1] = labels[Executed(i).arg] + 1

\* C18: after every instruction but Exit, ip is one past the selected address:
\* ip + 1 for a non-transfer and an untaken conditional jump, labels[v] + 1
\* for Jump, Call and a taken conditional jump, the popped call index + 1
\* for Return; a transfer never dispatches the Label it went to
C18_OnePastSelected == [](C18_State) /\ [][C18_Step]_vars

\* a jump forward over an instruction has gone on behind its Label
C18_Witness ==
    /\ pc = "interp"
    /\ Len(trace) >= 2
    /\ Executed(Len(trace) - 1).op = "Jump"
    /\ labels[Executed(Len(trace) - 1).arg] > trace[Len(trace) - 1] + 1
    /\ trace[Len(trace)] = labels[Executed(Len(trace) - 1).arg] + 1
    /\ ip = trace[Len(trace)] + 1

----------------------------------------------------------------------------
\* C19: the accumulator update of the next iteration of parse's loop
NextUpdate == Accumulate(code, src[pos + 1])

\* C19: at every step of decoding the update accumulator * 4 + code fits the
\* 8-bit accumulator (it never exceeds 255), the accumulator having been
\* reset before a fifth token is added
C19_AccumulatorFitsU8 == (pc = "parse" /\ pos < Len(src)) => NextUpdate < U8

----------------------------------------------------------------------------
\* C20: the first LF among the tokens that follow the opcode whose argument
\* parse_arg read last (the opcode being the tokens up to lastArg.from)
HasLF == \E i \in (lastArg.from + 1)..Len(src) : src[i] = LF

FirstLF ==
    CHOOSE i \in (lastArg.from + 1)..Len(src) :
        /\ src[i] = LF
        /\ \A j \in (lastArg.from + 1)..(i - 1) : src[j] # LF

\* C20: parse_arg stops at the first LF after the opcode, so decoding resumes
\* right after that LF, and an opcode immediately followed by LF has the
\* argument zero
C20_StopsAtFirstLF ==
    (lastArg # <<>> /\ HasLF) =>
        /\ lastArg.to = FirstLF
        /\ FirstLF = lastArg.from + 1 => lastArg.n = 0

====
